---- MODULE Spec2Model ----
(***************************************************************************)
(* Tabular reinforcement-learning engine of aprendizagem_reforco.py:       *)
(* the coordinator MecAprendRef, the value table MemoriaEsparsa, the       *)
(* epsilon-greedy strategy EGreedy, and the learners SARSA, QLearning,     *)
(* DynaQ (with ModeloTR) and QME (with MemoriaExperiencia).                *)
(*                                                                         *)
(* Numbers are exact rationals <<numerator, denominator>>.  The inputs are *)
(* dyadic (halves and integers) and the runs are short, so Python's float  *)
(* arithmetic on them is exact and agrees with the rational arithmetic.    *)
(*                                                                         *)
(* A method is an operator from the object state o (a record of the        *)
(* fields of the collaborating objects) to the SET of outcomes the method  *)
(* can produce; the random draws (shuffle, choice, sample, random) are the *)
(* members of that set.                                                    *)
(***************************************************************************)
EXTENDS Integers, Sequences, FiniteSets, TLC

\* ------------------------------------------------------------------ bounds
MaxPassos == 2

MaxChamadas == 3

MaxNumSim == 2

MaxDim == 2

\* ------------------------------------------------------ rational arithmetic
RECURSIVE GCD(_, _)
GCD(x, y) == IF y = 0 THEN x ELSE GCD(y, x % y)

Abs(x) == IF x < 0 THEN -x ELSE x

Frac(n, d) == LET g == GCD(Abs(n), d) IN <<n \div g, d \div g>>

LCM(x, y) == (x \div GCD(x, y)) * y

RAdd(x, y) ==
    LET l == LCM(x[2], y[2])
    IN  Frac(x[1] * (l \div x[2]) + y[1] * (l \div y[2]), l)

RSub(x, y) ==
    LET l == LCM(x[2], y[2])
    IN  Frac(x[1] * (l \div x[2]) - y[1] * (l \div y[2]), l)

RMul(x, y) ==
    LET g1 == GCD(Abs(x[1]), y[2])
        g2 == GCD(Abs(y[1]), x[2])
    IN  Frac((x[1] \div g1) * (y[1] \div g2), (x[2] \div g2) * (y[2] \div g1))

RGt(x, y) ==
    LET l == LCM(x[2], y[2])
    IN  x[1] * (l \div x[2]) > y[1] * (l \div y[2])

RGe(x, y) == x = y \/ RGt(x, y)

\* ------------------------------------------------------------ input sets
Estados == {"s0", "s1"}

Recompensas == {Frac(1, 1), Frac(-1, 1)}

Algoritmos == {"SARSA", "QLearning", "DynaQ", "QME"}

ComSimulacao == {"DynaQ", "QME"}

Meio == Frac(1, 2)

Zero == Frac(0, 1)

Alfas == {Frac(1, 2), Frac(1, 1)}

Gamas == {Frac(1, 2), Frac(1, 1)}

Epsilons == {Frac(0, 1), Frac(1, 2)}

\* the values random() returns: below, at and above the epsilons
Sorteios == {Frac(0, 1), Frac(1, 2), Frac(3, 4)}

\* the values of the parameter valor_omissao of MemoriaEsparsa
ValoresDeOmissao == {Zero, Meio}

\* the values a caller writes into the table, the defaults among them
ValoresQ == {Zero, Meio, Frac(-1, 1)}

DuasAcoes == <<"cima", "baixo">>

ListasDeAcoes == {<<"cima">>, DuasAcoes, <<"cima", "baixo", "esquerda">>}

None == "None"          \* Python's None, the default of the parameter an

Ausente == "ausente"    \* an argument that was not passed at all

\* the constructor arguments explored: every alfa, gama and epsilon with two
\* actions, every action list with one alfa, gama and epsilon, and every
\* num_sim and dim_max for the learners that have them
Configuracoes ==
    [alg : Algoritmos \ ComSimulacao, alfa : Alfas, gama : Gamas, epsilon : Epsilons,
     acoes : {DuasAcoes}, num_sim : {0}, dim_max : {1}]
    \cup
    [alg : Algoritmos \ ComSimulacao, alfa : {Meio}, gama : {Meio}, epsilon : {Meio},
     acoes : ListasDeAcoes, num_sim : {0}, dim_max : {1}]
    \cup
    [alg : {"DynaQ"}, alfa : {Meio}, gama : {Meio}, epsilon : {Meio},
     acoes : {DuasAcoes}, num_sim : 0..MaxNumSim, dim_max : {1}]
    \cup
    [alg : {"QME"}, alfa : {Meio}, gama : {Meio}, epsilon : {Meio},
     acoes : {DuasAcoes}, num_sim : 0..MaxNumSim, dim_max : 1..MaxDim]

\* ------------------------------------------------------------------ state
VARIABLES
    aprend_ref,            \* class of MecAprendRef.aprend_ref
    alfa, gama,            \* AprendRef.alfa, AprendRef.gama
    epsilon,               \* EGreedy.epsilon
    valor_omissao,         \* MemoriaEsparsa.valor_omissao
    num_sim,               \* DynaQ.num_sim / QME.num_sim
    dim_max,               \* MemoriaExperiencia.dim_max
    memoria,               \* MemoriaEsparsa.memoria : (s, a) -> q
    acoes,                 \* the list shared by EGreedy.acoes and MecAprendRef.acoes
    acoes_dadas,           \* history: that list as the constructors received it
    T, R,                  \* ModeloTR.T, ModeloTR.R
    memoria_experiencia,   \* MemoriaExperiencia.memoria
    erro,                  \* exception raised by the last call, or "nenhum"
    ult,                   \* history: the last call of the driver and its result
    reg,                   \* history: the method calls made inside the last call
    inseridos,             \* history: every transition given to MemoriaExperiencia.atualizar
    passos                 \* history: number of calls made by the driver

params == <<aprend_ref, alfa, gama, epsilon, valor_omissao, num_sim, dim_max, acoes_dadas>>

vars == <<aprend_ref, alfa, gama, epsilon, valor_omissao, num_sim, dim_max,
          memoria, acoes, acoes_dadas, T, R, memoria_experiencia, erro, ult, reg,
          inseridos, passos>>

Range(f) == {f[x] : x \in DOMAIN f}

\* dict[k] = v
Put(f, k, v) == [x \in (DOMAIN f) \cup {k} |-> IF x = k THEN v ELSE f[x]]

\* the fields of the collaborating objects, as one value
Objeto == [memoria |-> memoria, acoes |-> acoes, T |-> T, R |-> R,
           memoria_experiencia |-> memoria_experiencia, erro |-> "nenhum",
           reg |-> <<>>, inseridos |-> inseridos]

\* what an entry of reg remembers of the objects
Foto(o) == [memoria |-> o.memoria, acoes |-> o.acoes, T |-> o.T, R |-> o.R,
            memoria_experiencia |-> o.memoria_experiencia]

Evento(tipo, s, a, r, sn, an, idx, antes, depois) ==
    [tipo |-> tipo, s |-> s, a |-> a, r |-> r, sn |-> sn, an |-> an,
     idx |-> idx, antes |-> antes.memoria, depois |-> depois.memoria,
     lista |-> IF tipo = "SelAcao.max_acao" THEN depois.acoes ELSE <<>>]

Registar(antes, depois, tipo, s, a, r, sn, an, idx) ==
    [depois EXCEPT !.reg = Append(depois.reg,
                                  Evento(tipo, s, a, r, sn, an, idx, antes, depois))]

\* ---------------------------------------------------------- MemoriaEsparsa
MemoriaEsparsa_Q(mem, s, a) ==
    IF <<s, a>> \in DOMAIN mem THEN mem[<<s, a>>] ELSE valor_omissao

\* mutant: a key that is present keeps its value, setdefault for the assignment
MemoriaEsparsa_atualizar_se_ausente(mem, s, a, q) ==
    IF <<s, a>> \in DOMAIN mem THEN mem ELSE Put(mem, <<s, a>>, q)

\* mutant: the dict is replaced by one that holds the new entry alone
MemoriaEsparsa_atualizar_substitui(mem, s, a, q) == Put(<<>>, <<s, a>>, q)

MemoriaEsparsa_atualizar(mem, s, a, q) == Put(mem, <<s, a>>, q)

\* mutant: the read stores what it returns, setdefault for get
MemoriaEsparsa_Q_setdefault(o, s, a) ==
    LET q  == MemoriaEsparsa_Q(o.memoria, s, a)
        o1 == [o EXCEPT !.memoria = Put(o.memoria, <<s, a>>, q)]
    IN  {[o |-> Registar(o, o1, "MemoriaEsparsa.Q", s, a, q, None, None, <<>>), ret |-> q]}

\* the call obj.Q(s, a) as a step on the objects: its result and its effect
MemoriaEsparsa_Q_chamada(o, s, a) ==
    LET q == MemoriaEsparsa_Q(o.memoria, s, a)
    IN  {[o |-> Registar(o, o, "MemoriaEsparsa.Q", s, a, q, None, None, <<>>), ret |-> q]}

\* the call obj.atualizar(s, a, q) as a step on the objects
MemoriaEsparsa_atualizar_chamada(o, s, a, q) ==
    LET o1 == [o EXCEPT !.memoria = MemoriaEsparsa_atualizar(o.memoria, s, a, q)]
    IN  {Registar(o, o1, "MemoriaEsparsa.atualizar", s, a, q, None, None, <<>>)}

\* ----------------------------------------------------------------- SelAcao
\* mutant: the list is not shuffled
Shuffle_nenhum(lista) == {lista}

\* mutant: each position is filled by a draw from the list, so an action can
\* appear twice and another be lost
Shuffle_com_repeticao(lista) == [1..Len(lista) -> Range(lista)]

\* random.shuffle(acoes): every reordering of the list
Shuffle(lista) ==
    {[i \in 1..Len(lista) |-> lista[p[i]]] : p \in Permutations(1..Len(lista))}

\* mutant: min instead of max
RECURSIVE PyMax_min(_, _, _, _, _)
PyMax_min(lista, i, melhor, s, mem) ==
    IF i > Len(lista) THEN melhor
    ELSE IF RGt(MemoriaEsparsa_Q(mem, s, melhor), MemoriaEsparsa_Q(mem, s, lista[i]))
         THEN PyMax_min(lista, i + 1, lista[i], s, mem)
         ELSE PyMax_min(lista, i + 1, melhor, s, mem)

\* max(acoes, key=...): the first element whose key no later element exceeds
RECURSIVE PyMax(_, _, _, _, _)
PyMax(lista, i, melhor, s, mem) ==
    IF i > Len(lista) THEN melhor
    ELSE IF RGt(MemoriaEsparsa_Q(mem, s, lista[i]), MemoriaEsparsa_Q(mem, s, melhor))
         THEN PyMax(lista, i + 1, lista[i], s, mem)
         ELSE PyMax(lista, i + 1, melhor, s, mem)

\* mutant: the estimates are read with setdefault, which stores the default of
\* every candidate that has no entry
SelAcao_max_acao_setdefault(o, s) ==
    {LET ret == PyMax(l, 2, l[1], s, o.memoria)
         o1  == [o EXCEPT !.acoes = l,
                          !.memoria = [k \in DOMAIN o.memoria \cup {<<s, a>> : a \in Range(l)} |->
                                          MemoriaEsparsa_Q(o.memoria, k[1], k[2])]]
     IN  [o |-> Registar(o, o1, "SelAcao.max_acao", s, ret, Zero, s, ret, <<>>),
          ret |-> ret] :
        l \in Shuffle(o.acoes)}

SelAcao_max_acao(o, s) ==
    {LET ret == PyMax(l, 2, l[1], s, o.memoria)
         o1  == [o EXCEPT !.acoes = l]
     IN  [o |-> Registar(o, o1, "SelAcao.max_acao", s, ret, Zero, s, ret, <<>>),
          ret |-> ret] :
        l \in Shuffle(o.acoes)}

\* ------------------------------------------------------------------- SARSA
TD(qsa, r, qsn_an) == RAdd(qsa, RMul(alfa, RSub(RAdd(r, RMul(gama, qsn_an)), qsa)))

\* mutant: the update reads the greatest estimate of sn instead of that of an
SARSA_aprender_max(o, s, a, r, sn, an) ==
    LET qsa    == MemoriaEsparsa_Q(o.memoria, s, a)
        qsn_an == MemoriaEsparsa_Q(o.memoria, sn, PyMax(o.acoes, 2, o.acoes[1], sn, o.memoria))
        q      == TD(qsa, r, qsn_an)
        o2     == [o EXCEPT !.memoria = MemoriaEsparsa_atualizar(o.memoria, s, a, q)]
    IN  {Registar(o, o2, "SARSA.aprender", s, a, r, sn, an, <<>>)}

SARSA_aprender(o, s, a, r, sn, an) ==
    LET qsa    == MemoriaEsparsa_Q(o.memoria, s, a)
        qsn_an == MemoriaEsparsa_Q(o.memoria, sn, an)
        q      == TD(qsa, r, qsn_an)
        o2     == [o EXCEPT !.memoria = MemoriaEsparsa_atualizar(o.memoria, s, a, q)]
    IN  {Registar(o, o2, "SARSA.aprender", s, a, r, sn, an, <<>>)}

\* --------------------------------------------------------------- QLearning
\* mutant: the greedy action is sought in s instead of sn
QLearning_aprender_em_s(o, s, a, r, sn) ==
    {LET o1     == m.o
         an     == m.ret
         qsa    == MemoriaEsparsa_Q(o1.memoria, s, a)
         qsn_an == MemoriaEsparsa_Q(o1.memoria, sn, an)
         q      == TD(qsa, r, qsn_an)
         o2     == [o1 EXCEPT !.memoria = MemoriaEsparsa_atualizar(o1.memoria, s, a, q)]
     IN  Registar(o, o2, "QLearning.aprender", s, a, r, sn, an, <<>>) :
        m \in SelAcao_max_acao(o, s)}

QLearning_aprender(o, s, a, r, sn) ==
    {LET o1     == m.o
         an     == m.ret
         qsa    == MemoriaEsparsa_Q(o1.memoria, s, a)
         qsn_an == MemoriaEsparsa_Q(o1.memoria, sn, an)
         q      == TD(qsa, r, qsn_an)
         o2     == [o1 EXCEPT !.memoria = MemoriaEsparsa_atualizar(o1.memoria, s, a, q)]
     IN  Registar(o, o2, "QLearning.aprender", s, a, r, sn, an, <<>>) :
        m \in SelAcao_max_acao(o, sn)}

\* ---------------------------------------------------------------- ModeloTR
\* mutant: the reward of a key that is already recorded is kept, setdefault for
\* the item assignment of R
ModeloTR_atualizar_R_antigo(o, s, a, r, sn) ==
    LET o1 == [o EXCEPT !.T = Put(o.T, <<s, a>>, sn),
                        !.R = IF <<s, a>> \in DOMAIN o.R THEN o.R
                              ELSE Put(o.R, <<s, a>>, r)]
    IN  {Registar(o, o1, "ModeloTR.atualizar", s, a, r, sn, None, <<>>)}

ModeloTR_atualizar(o, s, a, r, sn) ==
    LET o1 == [o EXCEPT !.T = Put(o.T, <<s, a>>, sn), !.R = Put(o.R, <<s, a>>, r)]
    IN  {Registar(o, o1, "ModeloTR.atualizar", s, a, r, sn, None, <<>>)}

\* mutant: an empty model yields a transition of defaults instead of raising
ModeloTR_amostrar_omissao(o) ==
    IF DOMAIN o.T = {}
    THEN {[o |-> Registar(o, o, "ModeloTR.amostrar", None, None, Zero, None, None, <<>>),
           ret |-> <<None, None, Zero, None>>]}
    ELSE {LET s  == k[1]
              a  == k[2]
              sn == o.T[k]
              r  == o.R[k]
          IN  [o |-> Registar(o, o, "ModeloTR.amostrar", s, a, r, sn, None, <<>>),
               ret |-> <<s, a, r, sn>>] :
             k \in DOMAIN o.T}

\* choice(list(self.T.keys())) raises IndexError on an empty dict
ModeloTR_amostrar(o) ==
    IF DOMAIN o.T = {}
    THEN {[o |-> [o EXCEPT !.erro = "IndexError"], ret |-> <<>>]}
    ELSE {LET s  == k[1]
              a  == k[2]
              sn == o.T[k]
              r  == o.R[k]
          IN  [o |-> Registar(o, o, "ModeloTR.amostrar", s, a, r, sn, None, <<>>),
               ret |-> <<s, a, r, sn>>] :
             k \in DOMAIN o.T}

\* ------------------------------------------------------------------- DynaQ
\* S ; F : run F from every outcome of S
Seguido(S, F(_)) == UNION {F(x) : x \in S}

RECURSIVE DynaQ_simular_de(_, _)
DynaQ_simular_de(o, i) ==
    IF i > num_sim THEN {o}
    ELSE UNION {IF m.o.erro # "nenhum" THEN {m.o}
                ELSE Seguido(QLearning_aprender(m.o, m.ret[1], m.ret[2], m.ret[3], m.ret[4]),
                             LAMBDA o2 : DynaQ_simular_de(o2, i + 1)) :
                m \in ModeloTR_amostrar(o)}

DynaQ_simular(o) == DynaQ_simular_de(o, 1)

\* mutant: simular runs before the transition is recorded
DynaQ_aprender_simula_antes(o, s, a, r, sn) ==
    Seguido(Seguido(QLearning_aprender(o, s, a, r, sn),
                    LAMBDA o1 : DynaQ_simular(o1)),
            LAMBDA o2 : IF o2.erro # "nenhum" THEN {o2}
                        ELSE ModeloTR_atualizar(o2, s, a, r, sn))

DynaQ_aprender(o, s, a, r, sn) ==
    Seguido(Seguido(QLearning_aprender(o, s, a, r, sn),
                    LAMBDA o1 : ModeloTR_atualizar(o1, s, a, r, sn)),
            LAMBDA o2 : DynaQ_simular(o2))

\* ------------------------------------------------------ MemoriaExperiencia
\* mutant: a full memory drops its newest entry, pop() for pop(0)
MemoriaExperiencia_atualizar_pop(o, e) ==
    LET m0 == o.memoria_experiencia
        m1 == IF Len(m0) = dim_max THEN SubSeq(m0, 1, Len(m0) - 1) ELSE m0
        o1 == [o EXCEPT !.memoria_experiencia = Append(m1, e),
                        !.inseridos = Append(o.inseridos, e)]
    IN  {Registar(o, o1, "MemoriaExperiencia.atualizar", e[1], e[2], e[3], e[4], None, <<>>)}

\* mutant: the test is len > dim_max
MemoriaExperiencia_atualizar_maior(o, e) ==
    LET m0 == o.memoria_experiencia
        m1 == IF Len(m0) > dim_max THEN Tail(m0) ELSE m0
        o1 == [o EXCEPT !.memoria_experiencia = Append(m1, e),
                        !.inseridos = Append(o.inseridos, e)]
    IN  {Registar(o, o1, "MemoriaExperiencia.atualizar", e[1], e[2], e[3], e[4], None, <<>>)}

MemoriaExperiencia_atualizar(o, e) ==
    LET m0 == o.memoria_experiencia
        m1 == IF Len(m0) = dim_max THEN Tail(m0) ELSE m0
        o1 == [o EXCEPT !.memoria_experiencia = Append(m1, e),
                        !.inseridos = Append(o.inseridos, e)]
    IN  {Registar(o, o1, "MemoriaExperiencia.atualizar", e[1], e[2], e[3], e[4], None, <<>>)}

Min(x, y) == IF x < y THEN x ELSE y

\* mutant: positions drawn with replacement, random.choices for random.sample
Sample_com_reposicao(n, k) == [1..k -> 1..n]

\* random.sample(population, k): k distinct positions, in any order
Sample(n, k) == {f \in [1..k -> 1..n] : \A i, j \in 1..k : i # j => f[i] # f[j]}

\* mutant: the request is not capped, sample(self.memoria, n), which raises
\* ValueError when n exceeds the size of the memory
MemoriaExperiencia_amostrar_sem_min(o, n) ==
    LET m0 == o.memoria_experiencia
    IN  IF n > Len(m0)
        THEN {[o |-> [o EXCEPT !.erro = "ValueError"], ret |-> <<>>]}
        ELSE {[o |-> Registar(o, o, "MemoriaExperiencia.amostrar", None, None, Zero, None,
                              None, idx),
               ret |-> [i \in 1..n |-> m0[idx[i]]]] :
                 idx \in Sample(Len(m0), n)}

MemoriaExperiencia_amostrar(o, n) ==
    LET m0         == o.memoria_experiencia
        n_amostras == Min(n, Len(m0))
    IN  {[o |-> Registar(o, o, "MemoriaExperiencia.amostrar", None, None, Zero, None, None, idx),
          ret |-> [i \in 1..n_amostras |-> m0[idx[i]]]] :
            idx \in Sample(Len(m0), n_amostras)}

\* --------------------------------------------------------------------- QME
RECURSIVE QME_simular_de(_, _, _)
QME_simular_de(o, amostras, i) ==
    IF i > Len(amostras) THEN {o}
    ELSE Seguido(QLearning_aprender(o, amostras[i][1], amostras[i][2],
                                    amostras[i][3], amostras[i][4]),
                 LAMBDA o2 : QME_simular_de(o2, amostras, i + 1))

QME_simular(o) ==
    UNION {QME_simular_de(m.o, m.ret, 1) : m \in MemoriaExperiencia_amostrar(o, num_sim)}

QME_aprender(o, s, a, r, sn) ==
    Seguido(Seguido(QLearning_aprender(o, s, a, r, sn),
                    LAMBDA o1 : MemoriaExperiencia_atualizar(o1, <<s, a, r, sn>>)),
            LAMBDA o2 : QME_simular(o2))

\* ----------------------------------------------------------------- EGreedy
EGreedy_aproveitar(o, s) == SelAcao_max_acao(o, s)

\* choice(self.acoes)
EGreedy_explorar(o) == {[o |-> o, ret |-> o.acoes[i]] : i \in 1..Len(o.acoes)}

\* v is the value random() returned
EGreedy_selecionar_acao(o, s, v) ==
    IF RGt(v, epsilon) THEN EGreedy_aproveitar(o, s) ELSE EGreedy_explorar(o)

\* ------------------------------------------------------------ MecAprendRef
\* self.aprend_ref.aprender(s, a, r, sn) on a learner that is not a SARSA
AprendRef_aprender(o, s, a, r, sn) ==
    CASE aprend_ref = "QLearning" -> QLearning_aprender(o, s, a, r, sn)
      [] aprend_ref = "DynaQ"     -> DynaQ_aprender(o, s, a, r, sn)
      [] aprend_ref = "QME"       -> QME_aprender(o, s, a, r, sn)

\* mutant: the isinstance test is gone and an goes to every learner
MecAprendRef_aprender_sem_teste(o, s, a, r, sn, an) ==
    IF aprend_ref = "SARSA"
    THEN SARSA_aprender(Registar(o, o, "aprend_ref.aprender", s, a, r, sn, an, <<>>),
                        s, a, r, sn, an)
    ELSE AprendRef_aprender(Registar(o, o, "aprend_ref.aprender", s, a, r, sn, an, <<>>),
                            s, a, r, sn)

MecAprendRef_aprender(o, s, a, r, sn, an) ==
    IF aprend_ref = "SARSA"
    THEN SARSA_aprender(Registar(o, o, "aprend_ref.aprender", s, a, r, sn, an, <<>>),
                        s, a, r, sn, an)
    ELSE AprendRef_aprender(Registar(o, o, "aprend_ref.aprender", s, a, r, sn, Ausente, <<>>),
                            s, a, r, sn)

MecAprendRef_selecionar_acao(o, s, v) == EGreedy_selecionar_acao(o, s, v)

\* ------------------------------------------------------------ state machine
Chamada(op, s, a, r, sn, an, v, ret) ==
    [op |-> op, s |-> s, a |-> a, r |-> r, sn |-> sn, an |-> an, v |-> v,
     ret |-> ret, amostras |-> <<>>, antes |-> Foto(Objeto)]

Instalar(o) ==
    /\ memoria' = o.memoria
    /\ acoes' = o.acoes
    /\ T' = o.T
    /\ R' = o.R
    /\ memoria_experiencia' = o.memoria_experiencia
    /\ erro' = o.erro
    /\ reg' = o.reg
    /\ inseridos' = o.inseridos

\* the objects as the constructors leave them, for a learner of one of algs
Construir(algs) ==
    /\ \E c \in Configuracoes :
          /\ c.alg \in algs
          /\ aprend_ref = c.alg
          /\ alfa = c.alfa
          /\ gama = c.gama
          /\ epsilon = c.epsilon
          /\ num_sim = c.num_sim
          /\ dim_max = c.dim_max
          /\ acoes = c.acoes
          /\ acoes_dadas = c.acoes
    /\ valor_omissao = Zero
    /\ memoria = <<>>
    /\ T = <<>>
    /\ R = <<>>
    /\ memoria_experiencia = <<>>
    /\ erro = "nenhum"
    /\ reg = <<>>
    /\ inseridos = <<>>
    /\ ult = Chamada("init", None, None, Zero, None, None, Zero, None)
    /\ passos = 0

Init == Construir(Algoritmos)

InitSARSA == Construir({"SARSA"})

InitQLearning == Construir({"QLearning"})

InitDynaQ == Construir({"DynaQ"})

InitQME == Construir({"QME"})

\* the values of an the driver passes; None is the parameter's default
ProximasAcoes == Range(acoes) \cup {None}

\* the driver calls agente.aprender(s, a, r, sn[, an])
Aprender ==
    /\ passos < MaxPassos
    /\ \E s \in Estados, a \in Range(acoes), r \in Recompensas, sn \in Estados,
          an \in ProximasAcoes :
          \E o \in MecAprendRef_aprender(Objeto, s, a, r, sn, an) :
              /\ Instalar(o)
              /\ ult' = Chamada("aprender", s, a, r, sn, an, Zero, None)
    /\ passos' = passos + 1
    /\ UNCHANGED params

\* the driver calls agente.selecionar_acao(s)
SelecionarAcao ==
    /\ \E s \in Estados, v \in Sorteios :
          \E m \in MecAprendRef_selecionar_acao(Objeto, s, v) :
              /\ Instalar(m.o)
              /\ ult' = Chamada("selecionar_acao", s, None, Zero, None, None, v, m.ret)
    /\ passos < MaxPassos
    /\ passos' = passos + 1
    /\ UNCHANGED params

Next == Aprender \/ SelecionarAcao

\* a caller of the memory of experience calls atualizar(e)
InserirExperiencia ==
    /\ passos < MaxChamadas
    /\ \E s \in Estados, a \in Range(acoes), r \in Recompensas, sn \in Estados :
          \E o \in MemoriaExperiencia_atualizar(Objeto, <<s, a, r, sn>>) :
              /\ Instalar(o)
              /\ ult' = Chamada("MemoriaExperiencia.atualizar", s, a, r, sn, None, Zero, None)
    /\ passos' = passos + 1
    /\ UNCHANGED params

\* a caller of the memory of experience calls amostrar(n)
AmostrarExperiencia ==
    /\ passos < MaxChamadas
    /\ \E n \in 0..(MaxDim + 1) :
          \E m \in MemoriaExperiencia_amostrar(Objeto, n) :
              /\ Instalar(m.o)
              /\ ult' = [Chamada("MemoriaExperiencia.amostrar", None, None, Zero, None,
                                 None, Frac(n, 1), None)
                            EXCEPT !.amostras = m.ret]
    /\ passos' = passos + 1
    /\ UNCHANGED params

NextMemoriaExperiencia == InserirExperiencia \/ AmostrarExperiencia

\* a MemoriaEsparsa with either default, used by a caller of its two methods
InitMemoriaEsparsa ==
    /\ aprend_ref = "QLearning"
    /\ alfa = Meio
    /\ gama = Meio
    /\ epsilon = Meio
    /\ num_sim = 0
    /\ dim_max = 1
    /\ acoes = DuasAcoes
    /\ acoes_dadas = DuasAcoes
    /\ valor_omissao \in ValoresDeOmissao
    /\ memoria = <<>>
    /\ T = <<>>
    /\ R = <<>>
    /\ memoria_experiencia = <<>>
    /\ erro = "nenhum"
    /\ reg = <<>>
    /\ inseridos = <<>>
    /\ ult = Chamada("init", None, None, Zero, None, None, Zero, None)
    /\ passos = 0

\* the objects with the log of the calls made so far, for the callers below
\* that use one object directly and keep the log across their calls
ObjetoComRegisto == [Objeto EXCEPT !.reg = reg]

\* a caller of the model of transitions calls atualizar(s, a, r, sn)
GravarTransicao ==
    /\ passos < MaxChamadas
    /\ \E s \in Estados, a \in Range(acoes), r \in Recompensas, sn \in Estados :
          \E o \in ModeloTR_atualizar(ObjetoComRegisto, s, a, r, sn) :
              /\ Instalar(o)
              /\ ult' = Chamada("ModeloTR.atualizar", s, a, r, sn, None, Zero, None)
    /\ passos' = passos + 1
    /\ UNCHANGED params

\* a caller of the model of transitions calls amostrar(); a call that raises
\* returns nothing
AmostrarModelo ==
    /\ passos < MaxChamadas
    /\ \E m \in ModeloTR_amostrar(ObjetoComRegisto) :
          /\ Instalar(m.o)
          /\ ult' = [Chamada("ModeloTR.amostrar", None, None, Zero, None, None, Zero, None)
                        EXCEPT !.amostras = IF m.o.erro = "nenhum" THEN <<m.ret>> ELSE <<>>]
    /\ passos' = passos + 1
    /\ UNCHANGED params

NextModeloTR == GravarTransicao \/ AmostrarModelo

\* a caller of the value table calls Q(s, a); v is the value returned
LerQ ==
    /\ passos < MaxChamadas
    /\ \E s \in Estados, a \in Range(acoes) :
          \E m \in MemoriaEsparsa_Q_chamada(ObjetoComRegisto, s, a) :
              /\ Instalar(m.o)
              /\ ult' = Chamada("MemoriaEsparsa.Q", s, a, Zero, None, None, m.ret, None)
    /\ passos' = passos + 1
    /\ UNCHANGED params

\* a caller of the value table calls atualizar(s, a, q); r is the value written
EscreverQ ==
    /\ passos < MaxChamadas
    /\ \E s \in Estados, a \in Range(acoes), q \in ValoresQ :
          \E o \in MemoriaEsparsa_atualizar_chamada(ObjetoComRegisto, s, a, q) :
              /\ Instalar(o)
              /\ ult' = Chamada("MemoriaEsparsa.atualizar", s, a, q, None, None, Zero, None)
    /\ passos' = passos + 1
    /\ UNCHANGED params

NextMemoriaEsparsa == LerQ \/ EscreverQ

Spec == Init /\ [][Next]_vars

SpecSARSA == InitSARSA /\ [][Next]_vars

SpecQLearning == InitQLearning /\ [][Next]_vars

SpecDynaQ == InitDynaQ /\ [][Next]_vars

SpecQME == InitQME /\ [][Next]_vars

SpecMemoriaExperiencia == InitQME /\ [][NextMemoriaExperiencia]_vars

SpecModeloTR == InitDynaQ /\ [][NextModeloTR]_vars

SpecMemoriaEsparsa == InitMemoriaEsparsa /\ [][NextMemoriaEsparsa]_vars

\* ------------------------------------------------------------ claim helpers
\* the estimates of the actions of the strategy in state s, as a set
Estimativas(mem, s) == {MemoriaEsparsa_Q(mem, s, a2) : a2 \in Range(acoes)}

\* the greatest of them
MaxQ(mem, s) == CHOOSE m \in Estimativas(mem, s) : \A x \in Estimativas(mem, s) : RGe(m, x)

\* the actions whose estimate in s is the greatest
Melhores(mem, s) == {a2 \in Range(acoes) : MemoriaEsparsa_Q(mem, s, a2) = MaxQ(mem, s)}

\* old + alfa * (r + gama * alvo - old)
Esperado(old, r, alvo) == RAdd(old, RMul(alfa, RSub(RAdd(r, RMul(gama, alvo)), old)))

DoTipo(tipo) == {i \in 1..Len(reg) : reg[i].tipo = tipo}

\* the (s, a, r, sn) of an entry of reg
Transicao(e) == <<e.s, e.a, e.r, e.sn>>

\* ---------------------------------------------------------------------- C1
\* C1: every QLearning.aprender call on (s, a, r, sn) leaves
\* Q(s,a) = old Q(s,a) + alfa * (r + gama * M - old Q(s,a)), M being the greatest
\* estimate of sn in the table before the write; the call the driver makes on a
\* QLearning does so whatever next action an the driver names.
C1_OffPolicyUpdate ==
    /\ \A i \in DoTipo("QLearning.aprender") :
          LET e == reg[i]
          IN  MemoriaEsparsa_Q(e.depois, e.s, e.a)
                = Esperado(MemoriaEsparsa_Q(e.antes, e.s, e.a), e.r, MaxQ(e.antes, e.sn))
    /\ (ult.op = "aprender" /\ aprend_ref = "QLearning") =>
          MemoriaEsparsa_Q(memoria, ult.s, ult.a)
            = Esperado(MemoriaEsparsa_Q(ult.antes.memoria, ult.s, ult.a), ult.r,
                       MaxQ(ult.antes.memoria, ult.sn))

\* a QLearning update whose caller named a next action that is not greedy in sn,
\* with a greatest estimate that differs from the default
C1_Witness ==
    /\ ult.op = "aprender"
    /\ aprend_ref = "QLearning"
    /\ ult.an \in Range(acoes)
    /\ ult.an \notin Melhores(ult.antes.memoria, ult.sn)
    /\ MaxQ(ult.antes.memoria, ult.sn) # valor_omissao

\* ---------------------------------------------------------------------- C2
\* C2: every SARSA.aprender call on (s, a, r, sn, an) leaves
\* Q(s,a) = old Q(s,a) + alfa * (r + gama * Q(sn,an) - old Q(s,a)), with the
\* estimate of the an the caller gave, also when another action has a greater one.
C2_OnPolicyUpdate ==
    /\ \A i \in DoTipo("SARSA.aprender") :
          LET e == reg[i]
          IN  MemoriaEsparsa_Q(e.depois, e.s, e.a)
                = Esperado(MemoriaEsparsa_Q(e.antes, e.s, e.a), e.r,
                           MemoriaEsparsa_Q(e.antes, e.sn, e.an))
    /\ (ult.op = "aprender" /\ aprend_ref = "SARSA") =>
          MemoriaEsparsa_Q(memoria, ult.s, ult.a)
            = Esperado(MemoriaEsparsa_Q(ult.antes.memoria, ult.s, ult.a), ult.r,
                       MemoriaEsparsa_Q(ult.antes.memoria, ult.sn, ult.an))

\* a SARSA update whose next action has a smaller estimate than another action
C2_Witness ==
    /\ ult.op = "aprender"
    /\ aprend_ref = "SARSA"
    /\ ult.an \in Range(acoes)
    /\ ult.an \notin Melhores(ult.antes.memoria, ult.sn)
    /\ DoTipo("SARSA.aprender") # {}

\* ---------------------------------------------------------------------- C3
\* C3: the coordinator hands an to the learner exactly when the learner is a
\* SARSA; any other learner is called with (s, a, r, sn) alone, and each update
\* it makes is the off-policy one, in which an does not occur.
C3_Routing ==
    ult.op = "aprender" =>
        /\ Len(reg) >= 2
        /\ reg[1].tipo = "aprend_ref.aprender"
        /\ Transicao(reg[1]) = <<ult.s, ult.a, ult.r, ult.sn>>
        /\ reg[1].an # Ausente <=> aprend_ref = "SARSA"
        /\ IF aprend_ref = "SARSA"
           THEN /\ reg[1].an = ult.an
                /\ reg[2].tipo = "SARSA.aprender"
                /\ reg[2].an = ult.an
                /\ DoTipo("QLearning.aprender") = {}
           ELSE /\ DoTipo("SARSA.aprender") = {}
                /\ reg[3].tipo = "QLearning.aprender"
                /\ Transicao(reg[3]) = <<ult.s, ult.a, ult.r, ult.sn>>
                /\ reg[3].antes = ult.antes.memoria
                /\ \A i \in DoTipo("QLearning.aprender") :
                      LET e == reg[i]
                      IN  e.depois = Put(e.antes, <<e.s, e.a>>,
                                         Esperado(MemoriaEsparsa_Q(e.antes, e.s, e.a), e.r,
                                                  MaxQ(e.antes, e.sn)))

\* a DynaQ or QME called with a next action whose estimate is not the greatest one
C3_Witness ==
    /\ ult.op = "aprender"
    /\ aprend_ref \in ComSimulacao
    /\ num_sim > 0
    /\ ult.an \in Range(acoes)
    /\ ult.an \notin Melhores(ult.antes.memoria, ult.sn)

\* ---------------------------------------------------------------------- C4
\* C4: selecionar_acao returns a greedy action of the state when the drawn value
\* v is at least epsilon, v = epsilon included, and a member of the action list
\* when v is below epsilon.
C4_EpsilonGreedy ==
    ult.op = "selecionar_acao" =>
        IF RGe(ult.v, epsilon)
        THEN ult.ret \in Melhores(ult.antes.memoria, ult.s)
        ELSE ult.ret \in Range(acoes)

\* ---------------------------------------------------------------------- C5
\* C5: the action max_acao returns is one of the candidates and no candidate has
\* a greater estimate, in whatever order the shuffle left the candidates.
C5_BestAction ==
    \A i \in DoTipo("SelAcao.max_acao") :
        LET e == reg[i]
        IN  /\ e.an \in Range(e.lista)
            /\ \A a2 \in Range(e.lista) :
                  RGe(MemoriaEsparsa_Q(e.antes, e.s, e.an), MemoriaEsparsa_Q(e.antes, e.s, a2))

\* max_acao on three candidates with different estimates, shuffled into another
\* order than the given one, returns the last of them
C5_Witness ==
    \E i \in DoTipo("SelAcao.max_acao") :
        LET e == reg[i]
        IN  /\ Len(e.lista) = 3
            /\ e.lista # acoes_dadas
            /\ e.an = e.lista[3]
            /\ Cardinality({MemoriaEsparsa_Q(e.antes, e.s, a2) : a2 \in Range(e.lista)}) > 1

\* ---------------------------------------------------------------------- C6
\* C6: in every state of the table and for every state s, the actions max_acao
\* can return are exactly the actions whose estimate in s is the greatest.
C6_TieBreak ==
    \A s \in Estados :
        {m.ret : m \in SelAcao_max_acao(Objeto, s)} = Melhores(memoria, s)

\* a greedy selection that returned an action other than the first one given,
\* among two that share the greatest estimate while a third one is below it
C6_Witness ==
    /\ ult.op = "selecionar_acao"
    /\ RGt(ult.v, epsilon)
    /\ Cardinality(Melhores(memoria, ult.s)) = 2
    /\ Len(acoes_dadas) = 3
    /\ acoes_dadas[1] \in Melhores(memoria, ult.s)
    /\ ult.ret \in Melhores(memoria, ult.s) \ {acoes_dadas[1]}

\* ---------------------------------------------------------------------- C7
\* the last k entries of a list
Ultimos(lista, k) == SubSeq(lista, Len(lista) - k + 1, Len(lista))

\* C7: after the transitions T1..Tn were given to MemoriaExperiencia.atualizar,
\* the memory holds the last min(n, dim_max) of them, in the order given.
C7_FIFO ==
    memoria_experiencia = Ultimos(inseridos, Min(Len(inseridos), dim_max))

\* three different transitions went into a memory of two, and the first is gone
C7_Witness ==
    /\ dim_max = 2
    /\ Len(inseridos) = 3
    /\ Cardinality(Range(inseridos)) = 3
    /\ memoria_experiencia = <<inseridos[2], inseridos[3]>>
    /\ inseridos[1] \notin Range(memoria_experiencia)

\* ---------------------------------------------------------------------- C8
\* C8: the memory of experience never holds more than dim_max transitions.
C8_Bound == Len(memoria_experiencia) <= dim_max

\* a QME call that inserted into a memory that was full and then sampled it
C8_Witness ==
    /\ ult.op = "aprender"
    /\ Len(ult.antes.memoria_experiencia) = dim_max
    /\ Len(memoria_experiencia) = dim_max
    /\ \E i \in DoTipo("MemoriaExperiencia.amostrar") : reg[i].idx # <<>>

\* ---------------------------------------------------------------------- C9
\* the transition the driver gave to the last call of aprender
Real == <<ult.s, ult.a, ult.r, ult.sn>>

\* C9: one call of aprender on a DynaQ makes, in this order, the QLearning
\* update of the real transition, the recording of it in the model, and num_sim
\* times a sample of the model followed by the QLearning update of the sample;
\* each sample is a key of the model with the outcome the model holds for it,
\* the model ends as it was after the one recording, and nothing else happens.
C9_DynaQOrder ==
    (ult.op = "aprender" /\ aprend_ref = "DynaQ") =>
        /\ erro = "nenhum"
        /\ Len(reg) = 4 + 3 * num_sim
        /\ reg[1].tipo = "aprend_ref.aprender"
        /\ reg[2].tipo = "SelAcao.max_acao"
        /\ reg[3].tipo = "QLearning.aprender"
        /\ Transicao(reg[3]) = Real
        /\ reg[3].antes = ult.antes.memoria
        /\ reg[4].tipo = "ModeloTR.atualizar"
        /\ Transicao(reg[4]) = Real
        /\ reg[4].antes = reg[3].depois
        /\ T = Put(ult.antes.T, <<ult.s, ult.a>>, ult.sn)
        /\ R = Put(ult.antes.R, <<ult.s, ult.a>>, ult.r)
        /\ \A k \in 1..num_sim :
              LET b  == 4 + 3 * (k - 1)
                  am == reg[b + 1]
                  q  == reg[b + 3]
              IN  /\ am.tipo = "ModeloTR.amostrar"
                  /\ <<am.s, am.a>> \in DOMAIN T
                  /\ am.sn = T[<<am.s, am.a>>]
                  /\ am.r = R[<<am.s, am.a>>]
                  /\ reg[b + 2].tipo = "SelAcao.max_acao"
                  /\ q.tipo = "QLearning.aprender"
                  /\ Transicao(q) = Transicao(am)
                  /\ q.antes = reg[b].depois
        /\ memoria = reg[Len(reg)].depois

\* a DynaQ call with two simulated updates, on two different recorded
\* transitions, the first of them not the transition just observed
C9_Witness ==
    /\ ult.op = "aprender"
    /\ aprend_ref = "DynaQ"
    /\ num_sim = 2
    /\ Len(reg) = 10
    /\ Transicao(reg[5]) # Real
    /\ Transicao(reg[8]) # Transicao(reg[5])

\* --------------------------------------------------------------------- C10
\* C10: one call of aprender on a QME makes the QLearning update of the real
\* transition, appends it to the memory of experience (dropping the oldest
\* entry of a full memory), and replays min(num_sim, size of the memory after
\* the append) entries of that memory, no position of it twice.
C10_QMEReplay ==
    (ult.op = "aprender" /\ aprend_ref = "QME") =>
        LET antes == ult.antes.memoria_experiencia
            n     == Min(num_sim, Len(memoria_experiencia))
            idx   == reg[5].idx
        IN  /\ erro = "nenhum"
            /\ reg[1].tipo = "aprend_ref.aprender"
            /\ reg[2].tipo = "SelAcao.max_acao"
            /\ reg[3].tipo = "QLearning.aprender"
            /\ Transicao(reg[3]) = Real
            /\ reg[3].antes = ult.antes.memoria
            /\ reg[4].tipo = "MemoriaExperiencia.atualizar"
            /\ Transicao(reg[4]) = Real
            /\ reg[4].antes = reg[3].depois
            /\ memoria_experiencia
                 = Append(IF Len(antes) = dim_max THEN Tail(antes) ELSE antes, Real)
            /\ reg[5].tipo = "MemoriaExperiencia.amostrar"
            /\ Len(idx) = n
            /\ \A i \in 1..n : idx[i] \in 1..Len(memoria_experiencia)
            /\ \A i, j \in 1..n : i # j => idx[i] # idx[j]
            /\ Len(reg) = 5 + 2 * n
            /\ \A k \in 1..n :
                  /\ reg[4 + 2 * k].tipo = "SelAcao.max_acao"
                  /\ reg[5 + 2 * k].tipo = "QLearning.aprender"
                  /\ Transicao(reg[5 + 2 * k]) = memoria_experiencia[idx[k]]
                  /\ reg[5 + 2 * k].antes = reg[3 + 2 * k].depois
            /\ memoria = reg[Len(reg)].depois

\* a QME call that replayed both entries of a memory of two different
\* transitions, the newer one first
C10_Witness ==
    /\ ult.op = "aprender"
    /\ aprend_ref = "QME"
    /\ num_sim = 2
    /\ Len(memoria_experiencia) = 2
    /\ memoria_experiencia[1] # memoria_experiencia[2]
    /\ reg[5].idx = <<2, 1>>
    /\ Len(reg) = 9

\* --------------------------------------------------------------------- C11
\* C11: no call of aprender on a DynaQ, for any num_sim, ends in the IndexError
\* of a sample of an empty model: each of its num_sim samples is taken, and
\* returns a key the model holds, the model being non-empty from the recording
\* that precedes the samples.
C11_NeverEmptySample ==
    /\ erro = "nenhum"
    /\ (ult.op = "aprender" /\ aprend_ref = "DynaQ") =>
          /\ T # <<>>
          /\ Cardinality(DoTipo("ModeloTR.amostrar")) = num_sim
          /\ \A i \in DoTipo("ModeloTR.amostrar") :
                /\ <<reg[i].s, reg[i].a>> \in DOMAIN T
                /\ \E j \in DoTipo("ModeloTR.atualizar") : j < i

\* the first call of aprender on a DynaQ, whose model was empty when the call
\* began, took its two samples
C11_Witness ==
    /\ ult.op = "aprender"
    /\ aprend_ref = "DynaQ"
    /\ ult.antes.T = <<>>
    /\ num_sim = 2
    /\ Cardinality(DoTipo("ModeloTR.amostrar")) = 2

\* --------------------------------------------------------------------- C12
\* C12: ModeloTR.amostrar on a model that holds no transition raises (IndexError)
\* and returns no transition, and the model is still empty after the call.
C12_EmptyModelSample ==
    (ult.op = "ModeloTR.amostrar" /\ ult.antes.T = <<>>) =>
        /\ erro = "IndexError"
        /\ ult.amostras = <<>>
        /\ T = <<>>
        /\ R = <<>>

\* a sample of a model that never recorded a transition raised
C12_Witness ==
    /\ ult.op = "ModeloTR.amostrar"
    /\ ult.antes.T = <<>>
    /\ ult.antes.R = <<>>
    /\ erro = "IndexError"
    /\ DoTipo("ModeloTR.atualizar") = {}

\* --------------------------------------------------------------------- C13
\* C13: MemoriaExperiencia.amostrar(n) has an outcome for every content of the
\* memory, the empty one included, and every n >= 0; it raises nothing, returns
\* min(n, size) transitions, each of them stored in the memory, and leaves the
\* memory as it was, contents and order.
C13_TotalSampling ==
    /\ \A n \in 0..(MaxDim + 1) : MemoriaExperiencia_amostrar(Objeto, n) # {}
    /\ ult.op = "MemoriaExperiencia.amostrar" =>
          LET n     == ult.v[1]
              antes == ult.antes.memoria_experiencia
          IN  /\ erro = "nenhum"
              /\ Len(ult.amostras) = (IF n < Len(antes) THEN n ELSE Len(antes))
              /\ \A i \in 1..Len(ult.amostras) : ult.amostras[i] \in Range(antes)
              /\ memoria_experiencia = antes

\* three samples were asked of a memory that holds two transitions
C13_Witness ==
    /\ ult.op = "MemoriaExperiencia.amostrar"
    /\ ult.v[1] = 3
    /\ Len(ult.antes.memoria_experiencia) = 2
    /\ Len(ult.amostras) = 2
    /\ ult.amostras[1] # ult.amostras[2]

\* a sample was asked of the empty memory
C13_WitnessVazia ==
    /\ ult.op = "MemoriaExperiencia.amostrar"
    /\ ult.v[1] > 0
    /\ ult.antes.memoria_experiencia = <<>>
    /\ ult.amostras = <<>>

\* --------------------------------------------------------------------- C14
\* the calls of ModeloTR.atualizar for the key k among the first ate entries
\* of the log
Gravacoes(k, ate) ==
    {i \in DoTipo("ModeloTR.atualizar") : i <= ate /\ <<reg[i].s, reg[i].a>> = k}

\* the latest of them
UltimaGravacao(k, ate) ==
    reg[CHOOSE i \in Gravacoes(k, ate) : \A j \in Gravacoes(k, ate) : j <= i]

\* C14: after any sequence of ModeloTR.atualizar calls the model holds, for
\* exactly the keys (s, a) that were recorded, one next state and one reward,
\* those of the latest recording of the key; and every sample carries the next
\* state and the reward of the latest recording of its key made before it.
C14_Overwrite ==
    /\ DOMAIN T = DOMAIN R
    /\ DOMAIN T = {<<reg[i].s, reg[i].a>> : i \in DoTipo("ModeloTR.atualizar")}
    /\ \A k \in DOMAIN T :
          /\ T[k] = UltimaGravacao(k, Len(reg)).sn
          /\ R[k] = UltimaGravacao(k, Len(reg)).r
    /\ \A i \in DoTipo("ModeloTR.amostrar") :
          LET k == <<reg[i].s, reg[i].a>>
          IN  /\ Gravacoes(k, i) # {}
              /\ reg[i].sn = UltimaGravacao(k, i).sn
              /\ reg[i].r = UltimaGravacao(k, i).r

\* a key recorded twice, with another next state and another reward the second
\* time, and then sampled
C14_Witness ==
    /\ Len(reg) = 3
    /\ reg[1].tipo = "ModeloTR.atualizar"
    /\ reg[2].tipo = "ModeloTR.atualizar"
    /\ reg[3].tipo = "ModeloTR.amostrar"
    /\ <<reg[1].s, reg[1].a>> = <<reg[2].s, reg[2].a>>
    /\ reg[1].sn # reg[2].sn
    /\ reg[1].r # reg[2].r
    /\ ult.amostras = <<Transicao(reg[2])>>

\* --------------------------------------------------------------------- C15
\* the calls of MemoriaEsparsa.atualizar for the key k among the first ate
\* entries of the log
Escritas(k, ate) ==
    {i \in DoTipo("MemoriaEsparsa.atualizar") : i <= ate /\ <<reg[i].s, reg[i].a>> = k}

\* C15: a call Q(s, a) for a pair that no earlier call of atualizar wrote
\* returns valor_omissao and leaves the table as it was, with no entry for the
\* pair.
C15_DefaultRead ==
    \A i \in DoTipo("MemoriaEsparsa.Q") :
        LET e == reg[i]
            k == <<e.s, e.a>>
        IN  Escritas(k, i) = {} =>
                /\ e.r = valor_omissao
                /\ e.depois = e.antes
                /\ k \notin DOMAIN e.depois

\* with the default 1/2, a pair was read twice after another pair was written,
\* and the last read returned 1/2 from a table of one entry
C15_Witness ==
    /\ ult.op = "MemoriaEsparsa.Q"
    /\ valor_omissao = Meio
    /\ ult.v = Meio
    /\ Len(reg) = 3
    /\ reg[1].tipo = "MemoriaEsparsa.atualizar"
    /\ reg[2].tipo = "MemoriaEsparsa.Q"
    /\ <<reg[2].s, reg[2].a>> = <<ult.s, ult.a>>
    /\ <<reg[1].s, reg[1].a>> # <<ult.s, ult.a>>
    /\ reg[1].r # Meio
    /\ Cardinality(DOMAIN memoria) = 1

\* --------------------------------------------------------------------- C16
\* the value given to the latest call of atualizar for the key k among the
\* first ate entries of the log
UltimaEscrita(k, ate) ==
    reg[CHOOSE i \in Escritas(k, ate) : \A j \in Escritas(k, ate) : j <= i].r

\* C16: after atualizar(s, a, v) the table holds v for (s, a), whether the key
\* was absent or held another value, and gains no key but that one; a later
\* call Q(s, a) returns the v of the latest atualizar.
C16_WriteThenRead ==
    /\ \A i \in DoTipo("MemoriaEsparsa.atualizar") :
          LET e == reg[i]
              k == <<e.s, e.a>>
          IN  /\ k \in DOMAIN e.depois
              /\ e.depois[k] = e.r
              /\ MemoriaEsparsa_Q(e.depois, e.s, e.a) = e.r
              /\ DOMAIN e.depois = DOMAIN e.antes \cup {k}
    /\ \A i \in DoTipo("MemoriaEsparsa.Q") :
          LET e == reg[i]
              k == <<e.s, e.a>>
          IN  Escritas(k, i) # {} => e.r = UltimaEscrita(k, i)

\* a key was written twice, with different values that both differ from the
\* default, and the read that followed returned the second value
C16_Witness ==
    /\ ult.op = "MemoriaEsparsa.Q"
    /\ Len(reg) = 3
    /\ reg[1].tipo = "MemoriaEsparsa.atualizar"
    /\ reg[2].tipo = "MemoriaEsparsa.atualizar"
    /\ <<reg[1].s, reg[1].a>> = <<ult.s, ult.a>>
    /\ <<reg[2].s, reg[2].a>> = <<ult.s, ult.a>>
    /\ reg[1].r # reg[2].r
    /\ reg[1].r # valor_omissao
    /\ reg[2].r # valor_omissao
    /\ ult.v = reg[2].r

\* --------------------------------------------------------------------- C17
\* C17: a call of aprender without a next action on a SARSA, or with a next
\* action on a learner that is not a SARSA, is rejected: it raises and leaves
\* the value table as it was.
C17_Rejected ==
    (/\ ult.op = "aprender"
     /\ \/ aprend_ref = "SARSA" /\ ult.an = None
        \/ aprend_ref # "SARSA" /\ ult.an # None) =>
        /\ erro # "nenhum"
        /\ memoria = ult.antes.memoria

\* --------------------------------------------------------------------- C18
\* C18: a call of selecionar_acao leaves the value table, the model of
\* transitions and the memory of experience as they were, and so does every
\* call of max_acao, those made inside aprender included; the tables differ
\* from what they were before the last call only if that call was aprender.
C18_SelectionFrame ==
    /\ ult.op = "selecionar_acao" =>
          /\ memoria = ult.antes.memoria
          /\ T = ult.antes.T
          /\ R = ult.antes.R
          /\ memoria_experiencia = ult.antes.memoria_experiencia
    /\ \A i \in DoTipo("SelAcao.max_acao") : reg[i].depois = reg[i].antes
    /\ (\/ memoria # ult.antes.memoria
        \/ T # ult.antes.T
        \/ R # ult.antes.R
        \/ memoria_experiencia # ult.antes.memoria_experiencia) => ult.op = "aprender"

\* a greedy selection that reordered the action list, made when the value table
\* and the model or the memory of experience held entries
C18_Witness ==
    /\ ult.op = "selecionar_acao"
    /\ RGt(ult.v, epsilon)
    /\ DoTipo("SelAcao.max_acao") # {}
    /\ acoes # ult.antes.acoes
    /\ memoria # <<>>
    /\ T # <<>> \/ memoria_experiencia # <<>>

\* --------------------------------------------------------------------- C19
\* how many times x occurs in a list
Ocorrencias(lista, x) == Cardinality({i \in 1..Len(lista) : lista[i] = x})

\* two lists with the same elements, each as many times in one as in the other
MesmasAcoes(l1, l2) ==
    /\ Len(l1) = Len(l2)
    /\ \A x \in Range(l1) \cup Range(l2) : Ocorrencias(l1, x) = Ocorrencias(l2, x)

\* C19: after any sequence of selecionar_acao and aprender calls the action
\* list shared by the strategy and the coordinator, which max_acao shuffles in
\* place, holds the actions given at construction, each as many times as given;
\* so does the list after every shuffle made inside a call.
C19_ActionsPreserved ==
    /\ MesmasAcoes(acoes, acoes_dadas)
    /\ \A i \in DoTipo("SelAcao.max_acao") : MesmasAcoes(reg[i].lista, acoes_dadas)

\* three actions were reordered by an aprender call and reordered again by the
\* greedy selection that followed
C19_Witness ==
    /\ Len(acoes_dadas) = 3
    /\ ult.op = "selecionar_acao"
    /\ ult.antes.memoria # <<>>
    /\ ult.antes.acoes # acoes_dadas
    /\ acoes # ult.antes.acoes
    /\ acoes # acoes_dadas

\* --------------------------------------------------------------------- C20
\* C20: one call of SARSA.aprender or QLearning.aprender on (s, a, ...) changes
\* the value table in the key (s, a) at most: every other key, the keys of sn
\* that the call read included, is present after the call exactly if it was
\* present before, with the same value.
C20_SingleKeyWrite ==
    \A i \in DoTipo("SARSA.aprender") \cup DoTipo("QLearning.aprender") :
        LET e == reg[i]
        IN  \A k \in (DOMAIN e.antes \cup DOMAIN e.depois) \ {<<e.s, e.a>>} :
                /\ k \in DOMAIN e.antes
                /\ k \in DOMAIN e.depois
                /\ e.depois[k] = e.antes[k]

\* an update of a key that was absent, which read the stored estimate of
\* another state's key and left some key of sn absent
C20_Witness ==
    \E i \in DoTipo("SARSA.aprender") \cup DoTipo("QLearning.aprender") :
        LET e == reg[i]
        IN  /\ e.sn # e.s
            /\ <<e.s, e.a>> \notin DOMAIN e.antes
            /\ <<e.sn, e.an>> \in DOMAIN e.antes
            /\ e.depois[<<e.s, e.a>>] # valor_omissao
            /\ \E a2 \in Range(acoes) : <<e.sn, a2>> \notin DOMAIN e.depois

\* --------------------------------------------------------------------- C21
\* the objects as they were before the last call, with the action list in the
\* order l
AntesCom(l) == [Objeto EXCEPT !.memoria = ult.antes.memoria, !.acoes = l]

\* the runs of QLearning.aprender on the arguments of the last call, from the
\* value table that call started from and any order of the action list
OutrasCorridas ==
    UNION {QLearning_aprender(AntesCom(l), ult.s, ult.a, ult.r, ult.sn) :
              l \in Shuffle(acoes_dadas)}

\* C21: every run of QLearning.aprender on the arguments of the last call,
\* started from the value table that call started from, ends in the value
\* table that call ended in, whatever order the list was in, whatever the
\* shuffle did and whichever tied action max_acao returned.
C21_Deterministic ==
    (ult.op = "aprender" /\ aprend_ref = "QLearning") =>
        \A o \in OutrasCorridas : o.memoria = memoria

\* a QLearning call that changed the table, on a next state in which two of
\* three actions tie for the greatest estimate: its runs return either of the
\* two and leave the list in each of its six orders
C21_Witness ==
    /\ ult.op = "aprender"
    /\ aprend_ref = "QLearning"
    /\ Len(acoes_dadas) = 3
    /\ Cardinality(Melhores(ult.antes.memoria, ult.sn)) = 2
    /\ memoria # ult.antes.memoria
    /\ Cardinality({o.reg[Len(o.reg)].an : o \in OutrasCorridas}) = 2
    /\ Cardinality({o.acoes : o \in OutrasCorridas}) = 6

====
